---- MODULE Spec2Model ----
(***************************************************************************)
(* A model of availability.py: weekly recurring availability rules per     *)
(* player, their resolution per instant (player, team, league), the CSV    *)
(* loader's expansion of the Day field, and the minute-by-minute walk of   *)
(* generate_output that compresses the timeline into rows.                 *)
(*                                                                         *)
(* Time.  An instant is a number of minutes since 00:00 UTC of a Monday    *)
(* (day 0).  The wall clock is scaled: a day has HoursPerDay hours of      *)
(* MinutesPerHour minutes (24 and 60 for datetime); the end-of-day time    *)
(* (24, 00) of the source is <<HoursPerDay, 0>>.  A time zone is a fixed   *)
(* offset from UTC.  A calendar date (year, month, day) is the 1-tuple     *)
(* <<d>> of its day number, which tuple comparison orders the same way;    *)
(* None is the empty tuple.                                                *)
(*                                                                         *)
(* Strings the code takes apart are sequences of one-character strings     *)
(* (player names, matched by re_username); the Day field is given as the   *)
(* result of its splits: a sequence (split on ",") of sequences (split on  *)
(* "-") of names.                                                          *)
(***************************************************************************)
EXTENDS Integers, Sequences, FiniteSets, TLC

VARIABLES
    pc,                     \* where the program is
    csvfile,                \* the rows of the file args.filename names
    teams,                  \* LeagueAvailability.teams
    players,                \* LeagueAvailability.players (display name -> periods)
    error,                  \* the exception that ended the run, if any
    query,                  \* the last query made of the league and its result
    args,                   \* args.weeks, args.players, args.detail
    now, end, dt,           \* generate_output's range and position
    last_teams, last_players, last_from,
    team_player_minimums, team_player_maximums,
    output                  \* the rows written so far

vars == <<pc, csvfile, teams, players, error, query, args, now, end, dt, last_teams,
          last_players, last_from, team_player_minimums, team_player_maximums, output>>

---------------------------------------------------------------------------
(* Bounds of the model *)

HoursPerDay == 2
MinutesPerHour == 2
MaxRows == 3
MaxRequired == 3
MaxWeeks == 1
MaxTokens == 2

MinutesPerDay == HoursPerDay * MinutesPerHour
MinutesPerWeek == 7 * MinutesPerDay

---------------------------------------------------------------------------
(* Availability, weekdays *)

Availability == <<"No", "Maybe", "Yes">>

Value(a) == CASE a = "No" -> 1 [] a = "Maybe" -> 2 [] a = "Yes" -> 3

WeekdayNames == <<"Mon", "Tue", "Wed", "Thu", "Fri", "Sat", "Sun">>

IsWeekday(s) == \E i \in 1..7 : WeekdayNames[i] = s

weekdays == [s \in {WeekdayNames[i] : i \in 1..7} |->
                CHOOSE i \in 1..7 : WeekdayNames[i] = s]

weekdays_inv == [i \in 1..7 |-> WeekdayNames[i]]

next_day == [s \in DOMAIN weekdays |->
                LET next == weekdays[s] + 1
                IN  weekdays_inv[IF next > 7 THEN 1 ELSE next]]

---------------------------------------------------------------------------
(* Time zones and the projection of an instant *)

TimeZones == {"UTC", "Europe/Paris"}

UtcOffset(time_zone) == IF time_zone = "Europe/Paris" THEN MinutesPerHour ELSE 0

astimezone(ts, time_zone) ==
    LET local == ts + UtcOffset(time_zone)
        d == local \div MinutesPerDay
        m == local % MinutesPerDay
    IN  [date |-> <<d>>, isoweekday |-> (d % 7) + 1,
         hour |-> m \div MinutesPerHour, minute |-> m % MinutesPerHour]

\* Python's comparison of two tuples of numbers of the same length
RECURSIVE TupleLess(_, _)
TupleLess(a, b) ==
    IF a = <<>> \/ b = <<>> THEN FALSE
    ELSE IF Head(a) # Head(b) THEN Head(a) < Head(b)
    ELSE TupleLess(Tail(a), Tail(b))

---------------------------------------------------------------------------
(* PlayerAvailability *)

AvailablePeriod(time_zone, day, time_from, time_to, available, date_from, date_to) ==
    [time_zone |-> time_zone, day |-> day, time_from |-> time_from, time_to |-> time_to,
     available |-> available, date_from |-> date_from, date_to |-> date_to]

EndOfDay == <<HoursPerDay, 0>>

\* Player_add with the part after midnight left on the same weekday
Player_add_SameDay(periods, time_zone, day, time_from, time_to, available, date_from, date_to) ==
    IF TupleLess(time_to, time_from)
    THEN periods \cup
           {AvailablePeriod(time_zone, weekdays[day], time_from, EndOfDay,
                            available, date_from, date_to),
            AvailablePeriod(time_zone, weekdays[day], <<0, 0>>, time_to,
                            available, date_from, date_to)}
    ELSE periods \cup
           {AvailablePeriod(time_zone, weekdays[day], time_from, time_to,
                            available, date_from, date_to)}

Player_add(periods, time_zone, day, time_from, time_to, available, date_from, date_to) ==
    IF TupleLess(time_to, time_from)
    THEN periods \cup
           {AvailablePeriod(time_zone, weekdays[day], time_from, EndOfDay,
                            available, date_from, date_to),
            AvailablePeriod(time_zone, weekdays[next_day[day]], <<0, 0>>, time_to,
                            available, date_from, date_to)}
    ELSE periods \cup
           {AvailablePeriod(time_zone, weekdays[day], time_from, time_to,
                            available, date_from, date_to)}

\* PeriodMatches with the minute of time_to still inside the window
PeriodMatches_InclusiveEnd(period, ts) ==
    LET player_ts == astimezone(ts, period.time_zone)
    IN  /\ ~(period.date_from # <<>> /\ TupleLess(player_ts.date, period.date_from))
        /\ ~(period.date_to # <<>> /\ TupleLess(period.date_to, player_ts.date))
        /\ ~(player_ts.isoweekday # period.day)
        /\ ~(player_ts.hour < period.time_from[1])
        /\ ~(player_ts.hour > period.time_to[1])
        /\ ~(player_ts.hour = period.time_from[1] /\ player_ts.minute < period.time_from[2])
        /\ ~(player_ts.hour = period.time_to[1] /\ player_ts.minute > period.time_to[2])

\* One pass of the loop body of available_at: TRUE when no continue is taken
PeriodMatches(period, ts) ==
    LET player_ts == astimezone(ts, period.time_zone)
    IN  /\ ~(period.date_from # <<>> /\ TupleLess(player_ts.date, period.date_from))
        /\ ~(period.date_to # <<>> /\ TupleLess(period.date_to, player_ts.date))
        /\ ~(player_ts.isoweekday # period.day)
        /\ ~(player_ts.hour < period.time_from[1])
        /\ ~(player_ts.hour > period.time_to[1])
        /\ ~(player_ts.hour = period.time_from[1] /\ player_ts.minute < period.time_from[2])
        /\ ~(player_ts.hour = period.time_to[1] /\ player_ts.minute >= period.time_to[2])

MatchedAvailability(periods, ts) ==
    {period.available : period \in {p \in periods : PeriodMatches(p, ts)}}

\* Player_available_at with the test for No left to the end
Player_available_at_YesFirst(periods, ts) ==
    LET available == MatchedAvailability(periods, ts)
    IN  IF "Yes" \in available THEN "Yes"
        ELSE IF "Maybe" \in available THEN "Maybe"
        ELSE "No"

Player_available_at(periods, ts) ==
    LET available == MatchedAvailability(periods, ts)
    IN  IF "No" \in available THEN "No"
        ELSE IF "Yes" \in available THEN "Yes"
        ELSE IF "Maybe" \in available THEN "Maybe"
        ELSE "No"

---------------------------------------------------------------------------
(* Python dicts keep insertion order: a dict is the sequence of its items *)

Keys(d) == {d[i].key : i \in DOMAIN d}

Get(d, k) == d[CHOOSE i \in DOMAIN d : d[i].key = k].value

\* d[k] = v: an existing key keeps its place, a new one goes last
Put(d, k, v) ==
    IF k \in Keys(d)
    THEN [i \in DOMAIN d |-> IF d[i].key = k THEN [key |-> k, value |-> v] ELSE d[i]]
    ELSE Append(d, [key |-> k, value |-> v])

---------------------------------------------------------------------------
(* TeamAvailability: players is a dict from player name to the player's periods *)

Star == <<"*">>

Team_add(team, player, time_zone, day, time_from, time_to, available, date_from, date_to) ==
    Put(team, player,
        Player_add(IF player \in Keys(team) THEN Get(team, player) ELSE {},
                   time_zone, day, time_from, time_to, available, date_from, date_to))

\* Multiplier with the wildcard counted as one player
Multiplier_One(name, players_required) == 1

\* Multiplier with every player counted as the wildcard is
Multiplier_All(name, players_required) == players_required

Multiplier(name, players_required) == IF name = Star THEN players_required ELSE 1

\* available[availability] of available_at after the first k players of the team
RECURSIVE Counted(_, _, _, _, _)
Counted(team, ts, players_required, availability, k) ==
    IF k = 0 THEN 0
    ELSE Counted(team, ts, players_required, availability, k - 1)
         + (IF Value(availability) <= Value(Player_available_at(team[k].value, ts))
            THEN Multiplier(team[k].key, players_required) ELSE 0)

\* result of available_at after the first k members of Availability
RECURSIVE BestResult(_, _, _, _)
BestResult(team, ts, players_required, k) ==
    IF k = 0 THEN [players |-> 0, availability |-> "No"]
    ELSE LET n == Counted(team, ts, players_required, Availability[k], Len(team))
         IN  IF n >= players_required
             THEN [players |-> n, availability |-> Availability[k]]
             ELSE BestResult(team, ts, players_required, k - 1)

Team_available_at(team, ts, players_required) ==
    BestResult(team, ts, players_required, Len(Availability))

\* available[value] of any_available_at after the first k players of the team
RECURSIVE AnyCounted(_, _, _, _, _)
AnyCounted(team, ts, players_required, value, k) ==
    IF k = 0 THEN 0
    ELSE AnyCounted(team, ts, players_required, value, k - 1)
         + (IF Value(Player_available_at(team[k].value, ts)) = value
            THEN Multiplier(team[k].key, players_required) ELSE 0)

\* Team_any_available_at asking for more Yes players than required
Team_any_available_at_Strict(team, ts, players_required) ==
    LET yes == AnyCounted(team, ts, players_required, Value("Yes"), Len(team))
        maybe == AnyCounted(team, ts, players_required, Value("Maybe"), Len(team))
        total == yes + maybe
    IN  IF total = 0 THEN [players |-> 0, availability |-> "No"]
        ELSE IF yes > players_required \/ maybe = 0
        THEN [players |-> total, availability |-> "Yes"]
        ELSE [players |-> total, availability |-> "Maybe"]

Team_any_available_at(team, ts, players_required) ==
    LET yes == AnyCounted(team, ts, players_required, Value("Yes"), Len(team))
        maybe == AnyCounted(team, ts, players_required, Value("Maybe"), Len(team))
        total == yes + maybe
    IN  IF total = 0 THEN [players |-> 0, availability |-> "No"]
        ELSE IF yes >= players_required \/ maybe = 0
        THEN [players |-> total, availability |-> "Yes"]
        ELSE [players |-> total, availability |-> "Maybe"]

---------------------------------------------------------------------------
(* LeagueAvailability.__init__: the rows of the file, after the header.  A row is *)
(* given with its fields filled and its times and dates already parsed.           *)

PlainDay(name) == <<<<name>>>>

\* day in weekdays.keys(), for day the whole field or a name taken from a range
InWeekdays(day) == Len(day) = 1 /\ Len(day[1]) = 1 /\ IsWeekday(day[1][1])

\* the days added by lines 200-204: from a forward to b
RECURSIVE RangeDays(_, _)
RangeDays(a, b) == IF a = b THEN {a} ELSE {a} \cup RangeDays(next_day[a], b)

\* the loop over day.split(","), after its first k tokens
RECURSIVE ExpandDays(_, _)
ExpandDays(field, k) ==
    IF k = 0 THEN [day |-> field, days |-> {}, invalid |-> FALSE]
    ELSE LET prev == ExpandDays(field, k - 1)
             weekday == field[k]
         IN  IF prev.invalid THEN prev
             ELSE IF Len(weekday) >= 2
             THEN IF Len(weekday) # 2 \/ ~IsWeekday(weekday[1]) \/ ~IsWeekday(weekday[2])
                  THEN [prev EXCEPT !.invalid = TRUE]
                  ELSE [day |-> PlainDay(weekday[2]),
                        days |-> prev.days \cup RangeDays(weekday[1], weekday[2]),
                        invalid |-> FALSE]
             ELSE IF ~InWeekdays(prev.day)
             THEN [prev EXCEPT !.invalid = TRUE]
             ELSE [prev EXCEPT !.days = @ \cup {weekday[1]}]

NormaliseTo(time_to) == IF time_to = <<0, 0>> THEN EndOfDay ELSE time_to

\* for day in days: self.teams[team].add(...), days holding weekday names only
RECURSIVE AddDays(_, _, _, _)
AddDays(team, row, days, k) ==
    IF k = 0 THEN team
    ELSE LET t == AddDays(team, row, days, k - 1)
         IN  IF WeekdayNames[k] \in days
             THEN Team_add(t, row.player, row.time_zone, WeekdayNames[k], row.time_from,
                           NormaliseTo(row.time_to), row.available, row.date_from, row.date_to)
             ELSE t

NoError == [type |-> "", message |-> "", line |-> 0]

Exception(message, line) == [type |-> "Exception", message |-> message, line |-> line]

\* the league after the first k rows: [teams, error]; row k is on line k + 1
RECURSIVE LoadRows(_, _)
LoadRows(file, k) ==
    IF k = 0 THEN [teams |-> <<>>, error |-> NoError]
    ELSE LET prev == LoadRows(file, k - 1)
             row == file[k]
             line == k + 1
             expanded == ExpandDays(row.day, Len(row.day))
         IN  IF prev.error # NoError THEN prev
             ELSE IF row.team = <<>>
             THEN [prev EXCEPT !.error = Exception("Invalid team", line)]
             ELSE IF row.player = <<>>
             THEN [prev EXCEPT !.error = Exception("Invalid player", line)]
             ELSE IF row.time_zone \notin TimeZones
             THEN [prev EXCEPT !.error = Exception("Invalid time zone", line)]
             ELSE IF expanded.invalid
             THEN [prev EXCEPT !.error = Exception("Invalid day", line)]
             ELSE IF \A i \in 1..3 : Availability[i] # row.available
             THEN [prev EXCEPT !.error = Exception("Invalid availability", line)]
             ELSE IF \E d \in expanded.days : ~IsWeekday(d)
             THEN [prev EXCEPT !.error = [type |-> "KeyError", message |-> "", line |-> line]]
             ELSE [prev EXCEPT !.teams =
                      Put(@, row.team,
                          AddDays(IF row.team \in Keys(@) THEN Get(@, row.team) ELSE <<>>,
                                  row, expanded.days, 7))]

\* re_username.fullmatch(name2): the place of the space before "(@handle)", or 0
UsernameAt(name2) ==
    LET n == Len(name2)
        at == {i \in 2..(n - 4) :
                 /\ name2[i] = " " /\ name2[i + 1] = "(" /\ name2[i + 2] = "@"
                 /\ name2[n] = ")"
                 /\ \A j \in (i + 3)..n : name2[j] # " "}
    IN  IF at = {} THEN 0 ELSE CHOOSE i \in at : TRUE

DisplayName(name, name2) ==
    LET i == UsernameAt(name2)
    IN  name \o <<" ", "/", " ">> \o (IF i = 0 THEN name2 ELSE SubSeq(name2, 1, i - 1))

\* self.players after the first k players of team number t
RECURSIVE PlayerIndex(_, _, _)
PlayerIndex(league, t, k) ==
    IF t = 0 THEN <<>>
    ELSE IF k = 0 THEN PlayerIndex(league, t - 1, IF t = 1 THEN 0 ELSE Len(league[t - 1].value))
    ELSE Put(PlayerIndex(league, t, k - 1),
             DisplayName(league[t].key, league[t].value[k].key),
             league[t].value[k].value)

LeaguePlayers(league) ==
    IF league = <<>> THEN <<>>
    ELSE PlayerIndex(league, Len(league), Len(league[Len(league)].value))

teams_available_at(league, ts, players_required) ==
    LET found == {i \in DOMAIN league :
                    Value(Team_available_at(league[i].value, ts, players_required).availability)
                       > Value("No")}
    IN  [name \in {league[i].key : i \in found} |->
            Team_available_at(Get(league, name), ts, players_required)]

teams_any_available_at(league, ts, players_required) ==
    LET found == {i \in DOMAIN league :
                    Value(Team_any_available_at(league[i].value, ts, players_required).availability)
                       > Value("No")}
    IN  [name \in {league[i].key : i \in found} |->
            Team_any_available_at(Get(league, name), ts, players_required)]

players_available_at(index, ts) ==
    {<<index[i].key, Player_available_at(index[i].value, ts)>> :
        i \in {j \in DOMAIN index : Value(Player_available_at(index[j].value, ts)) > Value("No")}}

---------------------------------------------------------------------------
(* generate_output *)

summarise_teams(found) == {<<team, found[team].availability>> : team \in DOMAIN found}

\* what the two csv writers put in a team's cell: the number or the range, and
\* whether it stands in parentheses
TeamCell(text, availability) == [text |-> text, paren |-> availability # "Yes"]

\* __output_team_list reads both dicts for every team of the row
CanOutputTeams(found, minimums, maximums) ==
    \A team \in DOMAIN found : team \in DOMAIN minimums /\ team \in DOMAIN maximums

output_team_list(dt_from, dt_to, found, minimums, maximums) ==
    [dt_from |-> dt_from, dt_to |-> dt_to,
     teams |-> [team \in DOMAIN found |->
                  IF minimums[team] = maximums[team]
                  THEN TeamCell(<<found[team].players>>, found[team].availability)
                  ELSE TeamCell(<<minimums[team], maximums[team]>>, found[team].availability)]]

output_player_list(dt_from, dt_to, found_players, found) ==
    [dt_from |-> dt_from, dt_to |-> dt_to,
     players |-> [name \in {p[1] : p \in found_players} |->
                    IF <<name, "Yes">> \in found_players THEN "X" ELSE "?"],
     teams |-> [team \in DOMAIN found |->
                  TeamCell(<<found[team].players>>, found[team].availability)]]

\* lines 352-353, for every team found at this minute
RecordMinimums(minimums, found) ==
    [team \in DOMAIN minimums \cup DOMAIN found |->
        IF team \in DOMAIN found
           /\ (team \notin DOMAIN minimums \/ minimums[team] > found[team].players)
        THEN found[team].players ELSE minimums[team]]

\* lines 354-355: a team without a maximum reads as 0
RecordMaximums(maximums, found) ==
    LET raised == {team \in DOMAIN found :
                     (IF team \in DOMAIN maximums THEN maximums[team] ELSE 0)
                        < found[team].players}
    IN  [team \in DOMAIN maximums \cup raised |->
            IF team \in raised THEN found[team].players ELSE maximums[team]]

NoQuery == [op |-> "", team |-> <<>>, player |-> <<>>, ts |-> 0, players_required |-> 0,
            result |-> [players |-> 0, availability |-> ""]]

NoArgs == [weeks |-> 0, players |-> 0, detail |-> FALSE]

KeyError == [type |-> "KeyError", message |-> "", line |-> 0]

Init ==
    /\ pc = "init"
    /\ csvfile = <<>>
    /\ teams = <<>>
    /\ players = <<>>
    /\ error = NoError
    /\ query = NoQuery
    /\ args = NoArgs
    /\ now = 0 /\ end = 0 /\ dt = 0
    /\ last_teams = <<>>
    /\ last_players = {}
    /\ last_from = -1
    /\ team_player_minimums = <<>>
    /\ team_player_maximums = <<>>
    /\ output = <<>>

loopvars == <<args, now, end, dt, last_teams, last_players, last_from,
              team_player_minimums, team_player_maximums, output>>

\* league = LeagueAvailability(args.filename)
Construct(f) ==
    /\ pc = "init"
    /\ csvfile' = f
    /\ LET loaded == LoadRows(f, Len(f))
       IN  IF loaded.error # NoError
           THEN /\ pc' = "failed"
                /\ error' = loaded.error
                /\ UNCHANGED <<teams, players>>
           ELSE /\ pc' = "loaded"
                /\ teams' = loaded.teams
                /\ players' = LeaguePlayers(loaded.teams)
                /\ UNCHANGED error
    /\ UNCHANGED <<query, loopvars>>

PlayerQuery(t, i, ts) ==
    /\ pc = "loaded"
    /\ t \in DOMAIN teams /\ i \in DOMAIN teams[t].value
    /\ query' = [op |-> "PlayerAvailability.available_at", team |-> teams[t].key,
                 player |-> teams[t].value[i].key, ts |-> ts, players_required |-> 0,
                 result |-> [players |-> 0,
                             availability |-> Player_available_at(teams[t].value[i].value, ts)]]
    /\ UNCHANGED <<pc, csvfile, teams, players, error, loopvars>>

TeamQuery(t, ts, players_required) ==
    /\ pc = "loaded"
    /\ t \in DOMAIN teams
    /\ query' = [op |-> "TeamAvailability.available_at", team |-> teams[t].key,
                 player |-> <<>>, ts |-> ts, players_required |-> players_required,
                 result |-> Team_available_at(teams[t].value, ts, players_required)]
    /\ UNCHANGED <<pc, csvfile, teams, players, error, loopvars>>

TeamAnyQuery(t, ts, players_required) ==
    /\ pc = "loaded"
    /\ t \in DOMAIN teams
    /\ query' = [op |-> "TeamAvailability.any_available_at", team |-> teams[t].key,
                 player |-> <<>>, ts |-> ts, players_required |-> players_required,
                 result |-> Team_any_available_at(teams[t].value, ts, players_required)]
    /\ UNCHANGED <<pc, csvfile, teams, players, error, loopvars>>

\* lines 297-307 and 328-335: the range, and the loop's variables
Begin(today, weeks, players_required, detail) ==
    /\ pc = "loaded"
    /\ args' = [weeks |-> weeks, players |-> players_required, detail |-> detail]
    /\ now' = today
    /\ end' = today + weeks * MinutesPerWeek
    /\ dt' = today
    /\ last_teams' = <<>>
    /\ last_players' = {}
    /\ last_from' = -1
    /\ team_player_minimums' = <<>>
    /\ team_player_maximums' = <<>>
    /\ output' = <<>>
    /\ pc' = IF weeks <= 0 THEN "done" ELSE IF detail THEN "detail" ELSE "team"
    /\ UNCHANGED <<csvfile, teams, players, error, query>>

\* one pass of the loop of lines 337-361
TeamStep ==
    /\ pc = "team"
    /\ LET found == teams_available_at(teams, dt, args.players)
           changed == summarise_teams(found) # summarise_teams(last_teams)
           closes == changed /\ DOMAIN last_teams # {}
           starts == changed \/ (DOMAIN found # {} /\ DOMAIN last_teams = {})
           from == IF starts THEN dt ELSE last_from
           minimums == RecordMinimums(IF starts THEN <<>> ELSE team_player_minimums, found)
           maximums == RecordMaximums(IF starts THEN <<>> ELSE team_player_maximums, found)
           flushes == dt + 1 = end /\ DOMAIN found # {}
           closed == IF closes
                     THEN Append(output, output_team_list(last_from, dt, last_teams,
                                    team_player_minimums, team_player_maximums))
                     ELSE output
       IN  IF closes /\ ~CanOutputTeams(last_teams, team_player_minimums, team_player_maximums)
           THEN /\ pc' = "failed"
                /\ error' = KeyError
                /\ UNCHANGED <<dt, last_teams, last_from, team_player_minimums,
                               team_player_maximums, output>>
           ELSE /\ dt' = dt + 1
                /\ last_teams' = found
                /\ last_from' = from
                /\ team_player_minimums' = minimums
                /\ team_player_maximums' = maximums
                /\ IF flushes /\ ~CanOutputTeams(found, minimums, maximums)
                   THEN /\ pc' = "failed"
                        /\ error' = KeyError
                        /\ output' = closed
                   ELSE /\ pc' = IF dt + 1 = end THEN "done" ELSE "team"
                        /\ output' = IF flushes
                                     THEN Append(closed, output_team_list(from, dt + 1, found,
                                                    minimums, maximums))
                                     ELSE closed
                        /\ UNCHANGED error
    /\ UNCHANGED <<csvfile, teams, players, query, args, now, end, last_players>>

\* one pass of the loop of lines 309-326
DetailStep ==
    /\ pc = "detail"
    /\ LET found == players_available_at(players, dt)
           changed == found # last_players
           closes == changed /\ last_players # {}
           from == IF changed \/ (found # {} /\ last_players = {}) THEN dt ELSE last_from
           flushes == dt + 1 = end /\ found # {}
           closed == IF closes
                     THEN Append(output, output_player_list(last_from, dt, last_players,
                                    teams_any_available_at(teams, last_from, args.players)))
                     ELSE output
       IN  /\ dt' = dt + 1
           /\ last_players' = found
           /\ last_from' = from
           /\ pc' = IF dt + 1 = end THEN "done" ELSE "detail"
           /\ output' = IF flushes
                        THEN Append(closed, output_player_list(from, dt + 1, found,
                                       teams_any_available_at(teams, from, args.players)))
                        ELSE closed
    /\ UNCHANGED <<csvfile, teams, players, error, query, args, now, end, last_teams,
                   team_player_minimums, team_player_maximums>>

---------------------------------------------------------------------------
(* The files, instants and arguments the specifications draw from *)

Alpha == <<"A", "l", "p", "h", "a">>
Beta == <<"B", "e", "t", "a">>
Ann == <<"A", "n", "n">>
Bob == <<"B", "o", "b">>
Cat == <<"C", "a", "t">>
BobX == <<"B", "o", "b", " ", "(", "@", "x", ")">>
BobY == <<"B", "o", "b", " ", "(", "@", "y", ")">>

Row(team, player, time_zone, day, time_from, time_to, available, date_from, date_to) ==
    [team |-> team, player |-> player, time_zone |-> time_zone, day |-> day,
     time_from |-> time_from, time_to |-> time_to, available |-> available,
     date_from |-> date_from, date_to |-> date_to]

RECURSIVE SetToSeq(_)
SetToSeq(S) ==
    IF S = {} THEN <<>>
    ELSE LET x == CHOOSE y \in S : TRUE IN <<x>> \o SetToSeq(S \ {x})

\* the files of at most n rows taken from a set of rows
FilesOf(rows, n) == {SetToSeq(T) : T \in {U \in SUBSET rows : Cardinality(U) \in 1..n}}

\* 00:00 UTC of day d
Midnight(d) == d * MinutesPerDay

\* the times of day a From or To field can hold
ClockTimes == (0..(HoursPerDay - 1)) \X (0..(MinutesPerHour - 1))

\* one player, overlapping rules on Monday
PlayerRows ==
    {Row(Alpha, Ann, "UTC", PlainDay("Mon"), f, t, a, <<>>, <<>>) :
        f \in {<<0, 0>>, <<0, 1>>}, t \in {<<0, 1>>, <<0, 0>>}, a \in {"No", "Maybe", "Yes"}}

PlayerInstants == Midnight(7)..Midnight(8)

\* one rule, of any window, in either time zone, with or without date bounds
RuleRows ==
    {Row(Alpha, Ann, z, PlainDay(d), f, t, a, df, dto) :
        z \in TimeZones, d \in {"Fri", "Sun"}, f \in ClockTimes, t \in ClockTimes,
        a \in {"Maybe", "Yes"}, df \in {<<>>, <<14>>}, dto \in {<<>>, <<14>>}}

\* two weeks and a day; day 14, the bound of the dated rules, is the second Monday
RuleInstants == Midnight(7)..(Midnight(22) - 1)

\* one team, every player available all Monday at one tier per rule
TeamRows ==
    {Row(Alpha, p, "UTC", PlainDay("Mon"), <<0, 0>>, <<0, 0>>, a, <<>>, <<>>) :
        p \in {Ann, Bob, Cat, Star}, a \in {"No", "Maybe", "Yes"}}

TeamInstants == {Midnight(7), Midnight(8)}

Required == 0..MaxRequired

\* one row whose Day field is a list of names and ranges
DayNames == {"Mon", "Wed", "Sat", "Sun", "Xyz"}

DayTokens ==
    {<<a>> : a \in DayNames} \cup {<<a, b>> : a \in DayNames, b \in DayNames}
        \cup {<<"Mon", "Wed", "Sat">>}

DayFields == UNION {[1..n -> DayTokens] : n \in 1..MaxTokens}

DayFiles == {<<Row(Alpha, Ann, "UTC", day, <<0, 0>>, <<0, 1>>, "Yes", <<>>, <<>>)>> :
                day \in DayFields}

\* the rules a player of the walked leagues may have: at most one of these
Windows ==
    {[day |-> "Mon", time_from |-> <<0, 0>>, time_to |-> <<0, 1>>],
     [day |-> "Mon", time_from |-> <<0, 0>>, time_to |-> <<1, 0>>],
     [day |-> "Sun", time_from |-> <<1, 0>>, time_to |-> <<0, 0>>]}

SlotRows(team, player) ==
    {<<>>} \cup {<<Row(team, player, "UTC", PlainDay(w.day), w.time_from, w.time_to, a,
                     <<>>, <<>>)>> : w \in Windows, a \in {"Maybe", "Yes"}}

TeamModeFiles ==
    {a \o b \o c : a \in SlotRows(Alpha, Ann), b \in SlotRows(Alpha, Bob),
                   c \in SlotRows(Beta, Star)}

DetailFiles ==
    {a \o b \o c : a \in SlotRows(Alpha, BobX), b \in SlotRows(Alpha, BobY),
                   c \in SlotRows(Beta, Ann)}

Weeks == 0..MaxWeeks

---------------------------------------------------------------------------
(* Specifications *)

\* In the three specifications of queries, each run asks one question of the league
\* it built.  The guards before the quantifiers repeat those of the actions.

\* a player with several rules, asked at every minute of a Monday
Next ==
    \/ pc = "init" /\ \E f \in FilesOf(PlayerRows, MaxRows) : Construct(f)
    \/ pc = "loaded" /\ query = NoQuery /\ \E ts \in PlayerInstants : PlayerQuery(1, 1, ts)

Spec == Init /\ [][Next]_vars

\* a player with one rule, asked at every minute of two weeks
RuleNext ==
    \/ pc = "init" /\ \E r \in RuleRows : Construct(<<r>>)
    \/ pc = "loaded" /\ query = NoQuery /\ \E ts \in RuleInstants : PlayerQuery(1, 1, ts)

RuleSpec == Init /\ [][RuleNext]_vars

\* a team, asked with every number of players required
TeamNext ==
    \/ pc = "init" /\ \E f \in FilesOf(TeamRows, MaxRows) : Construct(f)
    \/ pc = "loaded" /\ query = NoQuery /\ \E ts \in TeamInstants, n \in Required : TeamQuery(1, ts, n)
    \/ pc = "loaded" /\ query = NoQuery /\ \E ts \in TeamInstants, n \in Required : TeamAnyQuery(1, ts, n)

TeamSpec == Init /\ [][TeamNext]_vars

\* the loader on one row
LoadNext == pc = "init" /\ \E f \in DayFiles : Construct(f)

LoadSpec == Init /\ [][LoadNext]_vars

\* generate_output without --detail
TeamModeNext ==
    \/ pc = "init" /\ \E f \in TeamModeFiles : Construct(f)
    \/ pc = "loaded" /\ \E w \in Weeks, n \in Required : Begin(Midnight(7), w, n, FALSE)
    \/ TeamStep

TeamModeSpec == Init /\ [][TeamModeNext]_vars

\* generate_output with --detail
DetailNext ==
    \/ pc = "init" /\ \E f \in DetailFiles : Construct(f)
    \/ pc = "loaded" /\ \E w \in Weeks, n \in Required : Begin(Midnight(7), w, n, TRUE)
    \/ DetailStep

DetailSpec == Init /\ [][DetailNext]_vars

---------------------------------------------------------------------------
(* What the claims are stated with *)

PlayerAsked == query.op = "PlayerAvailability.available_at"
TeamAsked == query.op = "TeamAvailability.available_at"
TeamAnyAsked == query.op = "TeamAvailability.any_available_at"

RankOf(a) == CHOOSE i \in 1..3 : Availability[i] = a

\* the highest tier of a set of tiers, No for the empty set
MaxTier(S) ==
    IF S = {} THEN "No" ELSE CHOOSE a \in S : \A b \in S : RankOf(b) <= RankOf(a)

\* the periods of the player asked about, and the team asked about
AskedPeriods == Get(Get(teams, query.team), query.player)
AskedTeam == Get(teams, query.team)

---------------------------------------------------------------------------
(* C1 *)

\* C1, as claimed: the player's tier at an instant is the maximum tier, under
\* No < Maybe < Yes, among the rules matching the instant, and No when none matches.
C1_MaxOfMatching ==
    PlayerAsked =>
        query.result.availability = MaxTier(MatchedAvailability(AskedPeriods, query.ts))

\* C1, amended: the player's tier is No when a matching rule has tier No or when no
\* rule matches; otherwise it is the maximum tier among the matching rules.
C1_NoWinsThenMax ==
    PlayerAsked =>
        LET matching == MatchedAvailability(AskedPeriods, query.ts)
        IN  query.result.availability =
               (IF "No" \in matching THEN "No" ELSE MaxTier(matching))

\* a Yes rule and a No rule match the instant asked about
C1_Witness ==
    /\ PlayerAsked
    /\ {"No", "Yes"} \subseteq MatchedAvailability(AskedPeriods, query.ts)
    /\ query.result.availability = "No"

---------------------------------------------------------------------------
(* C7, C8: the file holds one row *)

TheRow == csvfile[1]
AskedLocal == astimezone(query.ts, TheRow.time_zone)
AskedTime == <<AskedLocal.hour, AskedLocal.minute>>
RowDay == weekdays[TheRow.day[1][1]]
DayAfter(d) == IF d = 7 THEN 1 ELSE d + 1

DateWithin(date, date_from, date_to) ==
    /\ date_from = <<>> \/ date[1] >= date_from[1]
    /\ date_to = <<>> \/ date[1] <= date_to[1]

\* the to-time add is called with
AddedTo == NormaliseTo(TheRow.time_to)

\* C7: a rule added with a to-time earlier than its from-time on weekday d is stored
\* as [from, 24:00) on d and [00:00, to) on the day after d, with the same time zone,
\* tier and date bounds, and the player has the rule's tier exactly at the instants
\* whose local date is within the bounds and whose local time is on d at or after
\* from, or on the day after d before to.
C7_OvernightSplit ==
    (pc = "loaded" /\ TupleLess(AddedTo, TheRow.time_from)) =>
        /\ Get(Get(teams, Alpha), Ann) =
              {[time_zone |-> TheRow.time_zone, day |-> RowDay,
                time_from |-> TheRow.time_from, time_to |-> <<HoursPerDay, 0>>,
                available |-> TheRow.available, date_from |-> TheRow.date_from,
                date_to |-> TheRow.date_to],
               [time_zone |-> TheRow.time_zone, day |-> DayAfter(RowDay),
                time_from |-> <<0, 0>>, time_to |-> TheRow.time_to,
                available |-> TheRow.available, date_from |-> TheRow.date_from,
                date_to |-> TheRow.date_to]}
        /\ PlayerAsked =>
              (query.result.availability = TheRow.available) =
                 (/\ DateWithin(AskedLocal.date, TheRow.date_from, TheRow.date_to)
                  /\ \/ /\ AskedLocal.isoweekday = RowDay
                        /\ ~TupleLess(AskedTime, TheRow.time_from)
                     \/ /\ AskedLocal.isoweekday = DayAfter(RowDay)
                        /\ TupleLess(AskedTime, TheRow.time_to))
        /\ PlayerAsked => query.result.availability \in {TheRow.available, "No"}

\* a Sunday rule that ends after midnight gives its tier on Monday morning
C7_Witness ==
    /\ PlayerAsked
    /\ TheRow.day = PlainDay("Sun")
    /\ TupleLess(AddedTo, TheRow.time_from)
    /\ AskedLocal.isoweekday = 1
    /\ query.result.availability = TheRow.available

\* what the claim says of one stored rule and one local instant
Covers(period, local) ==
    /\ DateWithin(local.date, period.date_from, period.date_to)
    /\ local.isoweekday = period.day
    /\ ~TupleLess(<<local.hour, local.minute>>, period.time_from)
    /\ TupleLess(<<local.hour, local.minute>>, period.time_to)

\* C8: a stored rule gives its tier at an instant exactly when the instant's local
\* date is within the rule's date bounds, its local weekday is the rule's, and its
\* local time is at or after time_from and before time_to; a row whose To field is
\* 00:00 gives its tier from time_from to the end of the day.
C8_HalfOpenWindow ==
    PlayerAsked =>
        /\ (query.result.availability = TheRow.available) =
              (\E period \in AskedPeriods :
                  Covers(period, astimezone(query.ts, period.time_zone)))
        /\ query.result.availability \in {TheRow.available, "No"}
        /\ TheRow.time_to = <<0, 0>> =>
              (query.result.availability = TheRow.available) =
                 (/\ DateWithin(AskedLocal.date, TheRow.date_from, TheRow.date_to)
                  /\ AskedLocal.isoweekday = RowDay
                  /\ ~TupleLess(AskedTime, TheRow.time_from))

\* a rule to 00:00 gives its tier in the last minute of its day
C8_Witness ==
    /\ PlayerAsked
    /\ TheRow.time_to = <<0, 0>>
    /\ TheRow.time_from # <<0, 0>>
    /\ AskedTime = <<HoursPerDay - 1, MinutesPerHour - 1>>
    /\ query.result.availability = TheRow.available

---------------------------------------------------------------------------
(* C2, C4, C6: a team at an instant *)

\* the places in the team of its named players, and of the wildcard
Named(team) == {i \in DOMAIN team : team[i].key # Star}
Wild(team) == {i \in DOMAIN team : team[i].key = Star}

TierAt(team, i, ts) == Player_available_at(team[i].value, ts)

\* players counting toward tier a when those of the tiers in S count: each named
\* player once, the wildcard as n
Units(team, ts, n, S) ==
    Cardinality({i \in Named(team) : TierAt(team, i, ts) \in S})
        + (IF \E i \in Wild(team) : TierAt(team, i, ts) \in S THEN n ELSE 0)

AtLeast(a) == {b \in {"No", "Maybe", "Yes"} : RankOf(b) >= RankOf(a)}

\* C2: available_at counts each player once, and the wildcard as players_required,
\* toward every tier up to the player's own, and returns the highest tier whose
\* count reaches players_required with that count, or (0, No) when none does.
C2_StrictQuorum ==
    TeamAsked =>
        LET n == query.players_required
            reached == {a \in {"No", "Maybe", "Yes"} :
                          Units(AskedTeam, query.ts, n, AtLeast(a)) >= n}
            best == MaxTier(reached)
        IN  query.result =
               (IF reached = {} THEN [players |-> 0, availability |-> "No"]
                ELSE [players |-> Units(AskedTeam, query.ts, n, AtLeast(best)),
                      availability |-> best])

\* one named player at Yes and the wildcard at Yes, three required: four at Yes
C2_Witness ==
    /\ TeamAsked
    /\ query.players_required = 3
    /\ Wild(AskedTeam) # {}
    /\ Cardinality(Named(AskedTeam)) = 1
    /\ query.result = [players |-> 4, availability |-> "Yes"]

\* C4, as claimed: as players_required grows, the tier returned never rises and the
\* count tallied for a tier never rises.
C4_CountNeverRises ==
    TeamAsked =>
        \A m \in Required :
            m >= query.players_required =>
                /\ RankOf(Team_available_at(AskedTeam, query.ts, m).availability)
                      <= RankOf(query.result.availability)
                /\ \A k \in 1..3 :
                      Counted(AskedTeam, query.ts, m, Availability[k], Len(AskedTeam))
                         <= Counted(AskedTeam, query.ts, query.players_required,
                                    Availability[k], Len(AskedTeam))

\* C4, amended: as players_required grows, the tier returned never rises, for every
\* team; the count tallied for a tier stays the same when the team has no wildcard
\* or its wildcard resolves below that tier, and grows by the growth of
\* players_required when the wildcard resolves to that tier or above.
C4_TierNeverRises ==
    TeamAsked =>
        \A m \in Required :
            m >= query.players_required =>
                /\ RankOf(Team_available_at(AskedTeam, query.ts, m).availability)
                      <= RankOf(query.result.availability)
                /\ \A k \in 1..3 :
                      Counted(AskedTeam, query.ts, m, Availability[k], Len(AskedTeam))
                         - Counted(AskedTeam, query.ts, query.players_required,
                                   Availability[k], Len(AskedTeam))
                      = (IF \E i \in Wild(AskedTeam) :
                               RankOf(TierAt(AskedTeam, i, query.ts)) >= k
                         THEN m - query.players_required ELSE 0)

\* a team with the wildcard is Yes for the number asked and lower for a larger one
C4_Witness ==
    /\ TeamAsked
    /\ Wild(AskedTeam) # {}
    /\ query.result.availability = "Yes"
    /\ \E m \in Required :
          /\ m > query.players_required
          /\ Team_available_at(AskedTeam, query.ts, m).availability = "Maybe"

\* C6: any_available_at counts each player, the wildcard as players_required, at the
\* player's own tier; with total the Yes and Maybe counts together it returns
\* (0, No) when total is 0, (total, Yes) when the Yes count reaches players_required
\* or the Maybe count is 0, and (total, Maybe) otherwise.
C6_LenientQuorum ==
    TeamAnyAsked =>
        LET n == query.players_required
            yes == Units(AskedTeam, query.ts, n, {"Yes"})
            maybe == Units(AskedTeam, query.ts, n, {"Maybe"})
        IN  query.result =
               (IF yes + maybe = 0 THEN [players |-> 0, availability |-> "No"]
                ELSE IF yes >= n \/ maybe = 0
                THEN [players |-> yes + maybe, availability |-> "Yes"]
                ELSE [players |-> yes + maybe, availability |-> "Maybe"])

\* two players at Yes and one at Maybe, three required: (3, Maybe)
C6_Witness ==
    /\ TeamAnyAsked
    /\ query.players_required = 3
    /\ Units(AskedTeam, query.ts, 3, {"Yes"}) = 2
    /\ query.result = [players |-> 3, availability |-> "Maybe"]

---------------------------------------------------------------------------
(* C9: the file holds one row, with a Day field of several tokens *)

DayNumber(s) == CHOOSE i \in 1..7 : WeekdayNames[i] = s

\* a token the claim allows: a weekday name, or a range of two weekday names
Listed(token) ==
    \/ Len(token) = 1 /\ IsWeekday(token[1])
    \/ Len(token) = 2 /\ IsWeekday(token[1]) /\ IsWeekday(token[2])

\* the days a token stands for: a range runs forward from its first day, past Sunday
\* to Monday if need be, to its second
TokenDays(token) ==
    IF Len(token) = 1 THEN {DayNumber(token[1])}
    ELSE {((DayNumber(token[1]) - 1 + k) % 7) + 1 :
             k \in 0..((DayNumber(token[2]) - DayNumber(token[1]) + 7) % 7)}

\* C9: a row whose Day field lists weekday names and ranges of them gets its rule on
\* exactly the days listed; a row with any other token ends the load with an error
\* that names the row's line, and adds no rule.
C9_DayLists ==
    pc # "init" =>
        IF \A k \in DOMAIN TheRow.day : Listed(TheRow.day[k])
        THEN /\ pc = "loaded"
             /\ {period.day : period \in Get(Get(teams, Alpha), Ann)}
                   = UNION {TokenDays(TheRow.day[k]) : k \in DOMAIN TheRow.day}
        ELSE /\ pc = "failed"
             /\ error = Exception("Invalid day", 2)
             /\ teams = <<>>

---------------------------------------------------------------------------
(* C3, C5: generate_output without --detail *)

Signature(m) == summarise_teams(teams_available_at(teams, m, args.players))

\* the longest stretches [a, b) of the range over which the signature is one
\* non-empty set
Runs ==
    {run \in (now..end) \X (now..end) :
        /\ run[1] < run[2]
        /\ Signature(run[1]) # {}
        /\ \A m \in run[1]..(run[2] - 1) : Signature(m) = Signature(run[1])
        /\ run[1] = now \/ Signature(run[1] - 1) # Signature(run[1])
        /\ run[2] = end \/ Signature(run[2]) # Signature(run[1])}

RowTiers(row) ==
    {<<team, IF row.teams[team].paren THEN "Maybe" ELSE "Yes">> : team \in DOMAIN row.teams}

\* C3: when generate_output ends, the rows written are exactly the longest stretches
\* of minutes with one non-empty set of (team, tier) pairs, each row with the tiers
\* of its stretch, in ascending order of time.
C3_MaximalRuns ==
    (pc \in {"done", "failed"} /\ ~args.detail) =>
        /\ {<<output[r].dt_from, output[r].dt_to>> : r \in DOMAIN output} = Runs
        /\ \A r, q \in DOMAIN output : r < q => output[r].dt_to <= output[q].dt_from
        /\ \A r \in DOMAIN output : RowTiers(output[r]) = Signature(output[r].dt_from)

StrictCounts(team, row) ==
    {Team_available_at(Get(teams, team), m, args.players).players :
        m \in row.dt_from..(row.dt_to - 1)}

Least(S) == CHOOSE x \in S : \A y \in S : x <= y
Greatest(S) == CHOOSE x \in S : \A y \in S : x >= y

\* C5: whenever a row is written, a minimum and a maximum are on record for each of
\* its teams (no row fails to be written for want of one), and each team's cell is
\* the least of the team's strict counts over the minutes of the row when it equals
\* the greatest, and the range from the least to the greatest otherwise.
C5_MinMaxOfInterval ==
    ~args.detail =>
        /\ error = NoError
        /\ \A r \in DOMAIN output : \A team \in DOMAIN output[r].teams :
              LET counts == StrictCounts(team, output[r])
              IN  output[r].teams[team].text =
                     (IF Least(counts) = Greatest(counts) THEN <<Least(counts)>>
                      ELSE <<Least(counts), Greatest(counts)>>)

---------------------------------------------------------------------------
(* C10: generate_output with --detail *)

LenientCells(m) ==
    LET found == teams_any_available_at(teams, m, args.players)
    IN  [team \in DOMAIN found |->
            TeamCell(<<found[team].players>>, found[team].availability)]

\* C10: the team summary of every row written in detail mode is the lenient summary
\* at every minute of the row.
C10_SummaryHoldsThroughRow ==
    args.detail =>
        \A r \in DOMAIN output :
            \A m \in output[r].dt_from..(output[r].dt_to - 1) :
                output[r].teams = LenientCells(m)

====
